---- MODULE Spec2Model ----
(***************************************************************************)
(* Model of simpleconsole's daemon lifecycle manager (DaemonProgram in     *)
(* simpleconsole/daemon.py) and of the execution envelope that runs it     *)
(* (ConsoleProgram.load / DaemonProgram.execute).                          *)
(*                                                                         *)
(* The state is the operating-system view of one pidfile path: the file's  *)
(* content, whether the path can be written, and a table of processes.     *)
(* Every process of the table is either a shell invocation of the program  *)
(* (`prog start|stop|restart`) or a descendant created by os.fork() in     *)
(* daemonize.  Each process carries its own program counter, so the steps  *)
(* of several invocations on the same path interleave freely.              *)
(***************************************************************************)
EXTENDS Integers, Sequences, FiniteSets, TLC

(***************************************************************************)
(* Bounds of the model.                                                    *)
(***************************************************************************)
\* number of process ids the process table can hand out
MaxProcs == 6
\* number of times the shell runs the program
MaxInvocations == 2
MaxCalls == 3
\* the first process id handed out; ids cross from two to three digits
FirstPid == 96

Pids == FirstPid .. (FirstPid + MaxProcs - 1)

(***************************************************************************)
(* Text.  A file's content is a sequence of one-character strings; "LF"    *)
(* stands for the newline character.                                       *)
(***************************************************************************)
Digits == <<"0", "1", "2", "3", "4", "5", "6", "7", "8", "9">>
Absent == <<"ENOENT">>
Sentinel == <<"t", "e", "s", "t", "LF">>

DigitChar(d) == Digits[d + 1]

DigitVal(c) == CHOOSE d \in 0..9 : Digits[d + 1] = c

IsDigit(c) == \E d \in 0..9 : Digits[d + 1] = c

IsSpace(c) == c \in {"LF", " "}

RECURSIVE str(_)
\* str(n) of a non-negative integer: its decimal digits
str(n) == IF n < 10 THEN <<DigitChar(n)>>
          ELSE str(n \div 10) \o <<DigitChar(n % 10)>>

\* mutant: the id written is the parent's (os.getppid)
FormatPid_parent(pid) == str(pid - 1) \o <<"LF">>

\* mutant: the newline is left out of the pidfile
FormatPid_nonewline(pid) == str(pid)

\* "%s\n" % pid
FormatPid(pid) == str(pid) \o <<"LF">>

RECURSIVE lstrip(_)
lstrip(s) == IF s # <<>> /\ IsSpace(Head(s)) THEN lstrip(Tail(s)) ELSE s

RECURSIVE rstrip(_)
rstrip(s) == IF s # <<>> /\ IsSpace(s[Len(s)])
             THEN rstrip(SubSeq(s, 1, Len(s) - 1)) ELSE s

strip(s) == rstrip(lstrip(s))

RECURSIVE DigitsValue(_)
DigitsValue(s) == IF s = <<>> THEN 0
                  ELSE 10 * DigitsValue(SubSeq(s, 1, Len(s) - 1))
                       + DigitVal(s[Len(s)])

IsNumeral(s) == s # <<>> /\ \A i \in 1..Len(s) : IsDigit(s[i])

\* int(text): surrounding whitespace is ignored, one sign is accepted, the
\* rest must be decimal digits; anything else is ValueError
int(text) ==
    LET s == strip(text)
        signed == s # <<>> /\ Head(s) \in {"+", "-"}
        body == IF signed THEN Tail(s) ELSE s
    IN IF IsNumeral(body)
       THEN [kind |-> "int",
             val |-> IF signed /\ Head(s) = "-" THEN 0 - DigitsValue(body)
                     ELSE DigitsValue(body)]
       ELSE [kind |-> "ValueError", val |-> 0]

None == [kind |-> "None", val |-> 0]

\* "... %s" % args with args a tuple: the tuple is the argument list, so the
\* format succeeds only when it has exactly one member per conversion
FormatTuple(nconv, args) == IF Len(args) = nconv THEN "ok" ELSE "TypeError"

(***************************************************************************)
(* State.                                                                  *)
(***************************************************************************)
VARIABLES
    pidfile,      \* content of the file at self.pidfile, or Absent
    writable,     \* whether open(self.pidfile, 'w+') succeeds
    proc,         \* the process table: pid -> process record
    nextpid,      \* the next process id the system hands out
    invocations,  \* how many times the shell has run the program
    run,          \* one call of a command's execute, outside the daemon
    registry      \* the module's command cache and the directories it scans

vars == <<pidfile, writable, proc, nextpid, invocations, run, registry>>

Blank == [pc |-> "unused", args |-> <<>>, op |-> "none", gen |-> 0, inv |-> 0,
          err |-> "none", msg |-> "", status |-> -1, atexit |-> FALSE,
          redirected |-> FALSE, target |-> 0, done |-> {}, pending |-> FALSE]

\* the command lines the shell is modelled to type
ArgChoices == { <<>>, <<"start">>, <<"stop">>, <<"restart">>, <<"status">>,
                <<"start", "stop">> }

Alive(p) == p \in Pids /\ proc[p].pc \notin {"unused", "exited", "killed"}

\* the three standard streams a program holds as self.stdin, self.stdout
\* and self.stderr
Streams == {"stdin", "stdout", "stderr"}

\* sys.path before load touches it
SysPath == <<"/usr/lib/python2.7">>

\* no call of execute is under way
Idle == [phase |-> "idle", cmd |-> "none", args |-> <<>>, tb |-> FALSE,
         behave |-> "none", hook |-> <<>>, readable |-> {},
         given |-> [s \in Streams |-> "absent"], opts |-> <<>>,
         targets |-> [s \in Streams |-> "unset"], syspath |-> SysPath,
         stdout |-> "stream",
         ret |-> [kind |-> "unset", text |-> <<>>, exc |-> "none",
                  msg |-> ""],
         out |-> <<>>, errs |-> <<>>, calls |-> <<>>,
         result |-> "none", exc |-> "none", status |-> -1]

(***************************************************************************)
(* The command registry of the package (__init__.py): the module variable  *)
(* _commands and the directories find_commands lists.  A file name is a    *)
(* sequence of characters; a directory is the sequence of the names in it, *)
(* Absent when there is no such directory.                                 *)
(***************************************************************************)
InitFile == <<"_", "_", "i", "n", "i", "t", "_", "_", ".", "p", "y">>
HelloFile == <<"h", "i", ".", "p", "y">>
NotesFile == <<"n", ".", "t", "x", "t">>

\* what a commands directory is modelled to hold
Listings == {Absent, <<>>, <<InitFile>>, <<InitFile, HelloFile>>,
             <<HelloFile, NotesFile>>}

\* __path__ of the package, and another management directory
PackagePath == "simpleconsole"
ManagementDirs == {PackagePath, "/srv/app"}

\* fname.startswith('_')
startswith_(fname) == Len(fname) >= 1 /\ fname[1] = "_"

\* fname.endswith('.py')
endswith_py(fname) ==
    Len(fname) >= 3 /\ SubSeq(fname, Len(fname) - 2, Len(fname)) = <<".", "p", "y">>

\* fname[:-3]
DropLast3(fname) == SubSeq(fname, 1, Len(fname) - 3)

\* the names the filter of find_commands can resolve: its arguments and
\* locals; the module has no global `f`
FindCommandsNames == {"management_dir", "command_dir", "fname"}

Listed(names) == [kind |-> "list", names |-> names]
NameError == [kind |-> "NameError", names |-> <<>>]

\* [fname[:-3] for fname in ... if not fname.startswith('_')
\*                                 and f.endswith('.py')]
RECURSIVE Comprehension(_)
Comprehension(files) ==
    IF files = <<>> THEN Listed(<<>>)
    ELSE LET fname == Head(files) IN
         IF startswith_(fname) THEN Comprehension(Tail(files))
         ELSE IF "f" \notin FindCommandsNames THEN NameError
         ELSE LET rest == Comprehension(Tail(files)) IN
              IF rest.kind # "list" THEN rest
              ELSE IF endswith_py(fname)
                   THEN Listed(<<DropLast3(fname)>> \o rest.names)
                   ELSE rest

\* os.listdir raises OSError for a missing directory: return [ ]
find_commands(listing) ==
    IF listing = Absent THEN Listed(<<>>) ELSE Comprehension(listing)

\* dict([(name, __package__) for name in ...]): every key has the same
\* value, the dictionary is given by its keys
Dict(names) == [kind |-> "dict", keys |-> {names[i] : i \in DOMAIN names}]
NoDict == [kind |-> "None", keys |-> {}]

\* the module as imported: _commands = None, nothing listed yet
Unloaded(dirs) ==
    [dirs |-> dirs, commands |-> NoDict, scans |-> 0, calls |-> 0,
     returned |-> NoDict, raised |-> "none"]

\* the package as shipped: its commands directory and no other
PackageOnly == [d \in ManagementDirs |-> IF d = PackagePath THEN <<InitFile>> ELSE Absent]

\* the path arguments get_commands is called with: None or a list of one
PathArgs == {"None"} \cup ManagementDirs

\* path = path or __path__ ... path[0]
FirstPath(path) == IF path = "None" THEN PackagePath ELSE path

get_commands(path) ==
    /\ registry.calls < MaxCalls
    /\ IF registry.commands = NoDict
       THEN LET found == find_commands(registry.dirs[FirstPath(path)]) IN
            IF found.kind = "list"
            THEN registry' = [registry EXCEPT !.calls = @ + 1,
                                              !.scans = @ + 1,
                                              !.commands = Dict(found.names),
                                              !.returned = Dict(found.names),
                                              !.raised = "none"]
            ELSE registry' = [registry EXCEPT !.calls = @ + 1,
                                              !.scans = @ + 1,
                                              !.raised = found.kind]
       ELSE registry' = [registry EXCEPT !.calls = @ + 1,
                                         !.returned = registry.commands,
                                         !.raised = "none"]
    /\ UNCHANGED <<pidfile, writable, proc, nextpid, invocations, run>>

Init ==
    /\ pidfile = Absent
    /\ writable \in BOOLEAN
    /\ proc = [p \in Pids |-> Blank]
    /\ nextpid = FirstPid
    /\ invocations = 0
    /\ run = Idle
    /\ registry = Unloaded(PackageOnly)

Set(p, r) == proc' = [proc EXCEPT ![p] = r]

Did(r, what) == [r EXCEPT !.done = @ \cup {what}]

(***************************************************************************)
(* DaemonProgram.execute around handle: ConsoleError is caught, reported   *)
(* and turned into sys.exit(1); any other exception leaves execute and     *)
(* ends the interpreter with status 1.  Either way the process goes on to  *)
(* its exit handlers.                                                      *)
(***************************************************************************)
\* the interpreter ends with `status`: with exit handlers registered they run
\* next (action exit); with none the process is gone at once
Exit(r, status) ==
    [r EXCEPT !.status = status,
              !.pc = IF r.atexit THEN "exiting" ELSE "exited"]

\* mutant: an error ends the process with status 0
Raise_status0(r, exc, msg) == Exit([r EXCEPT !.err = exc, !.msg = msg], 0)

Raise(r, exc, msg) == Exit([r EXCEPT !.err = exc, !.msg = msg], 1)

\* handle returned None: execute writes nothing and the process ends with 0
Return(r) == Exit(r, 0)

\* mutant: a forking parent reports failure to its caller
SysExit0_failure(r) == Exit(r, 1)

\* sys.exit(0) in a forking parent
SysExit0(r) == Exit(r, 0)

(***************************************************************************)
(* ConsoleProgram.load: the shell runs the program with a command line.    *)
(***************************************************************************)
load(args) ==
    /\ invocations < MaxInvocations
    /\ nextpid \in Pids
    /\ Set(nextpid, [Blank EXCEPT !.pc = "handle", !.args = args,
                                  !.inv = nextpid])
    /\ nextpid' = nextpid + 1
    /\ invocations' = invocations + 1
    /\ UNCHANGED <<pidfile, writable, run, registry>>

(***************************************************************************)
(* DaemonProgram.handle: the jump table.                                   *)
(***************************************************************************)
jumptable == {"start", "stop", "restart"}

\* mutant: restart is wired to start alone
Entry_startonly(op) == IF op = "stop" THEN "stop" ELSE "start"

Entry(op) == IF op = "start" THEN "start" ELSE "stop"

handle(p) ==
    /\ proc[p].pc = "handle"
    /\ LET r == proc[p] IN
       IF Len(r.args) # 1
       THEN \* building the message formats the args tuple itself
            IF FormatTuple(1, r.args) = "ok"
            THEN Set(p, Raise(r, "ConsoleError", "Expected only Daemon argument"))
            ELSE Set(p, Raise(r, "TypeError", ""))
       ELSE IF r.args[1] \in jumptable
            THEN Set(p, [r EXCEPT !.op = r.args[1], !.pc = Entry(r.args[1])])
            ELSE Set(p, Raise(r, "ConsoleError", "Unknown Daemon arg"))
    /\ UNCHANGED <<pidfile, writable, nextpid, invocations, run, registry>>

(***************************************************************************)
(* DaemonProgram.getpid                                                    *)
(***************************************************************************)
getpid(content) == IF content = Absent THEN None ELSE int(strip(content))

(***************************************************************************)
(* DaemonProgram.start: the pidfile check.                                 *)
(***************************************************************************)
\* mutant: start does not look at the pidfile
StartCheck_unchecked(r, pid) == [r EXCEPT !.pc = "fork1"]

\* mutant: start probes the process table and ignores a stale pidfile
StartCheck_probe(r, pid) ==
    IF pid.kind = "ValueError" THEN Raise(r, "ValueError", "")
    ELSE IF pid # None /\ pid.val \in Pids /\ proc[pid.val].pc = "handle_daemon"
         THEN Raise(r, "ConsoleError", "already exists")
    ELSE [r EXCEPT !.pc = "fork1"]

\* mutant: start holds a lock from its check to the write of the pidfile
StartCheck_locked(r, pid) ==
    IF pid.kind = "ValueError" THEN Raise(r, "ValueError", "")
    ELSE IF pid # None THEN Raise(r, "ConsoleError", "already exists")
    ELSE IF \E q \in Pids :
               /\ proc[q].inv # r.inv
               /\ proc[q].pc \in {"fork1", "detach", "fork2", "testpid",
                                  "testpid_remove", "redirect", "register",
                                  "writepid"}
         THEN Raise(r, "ConsoleError", "locked")
    ELSE [r EXCEPT !.pc = "fork1"]

\* `pid` is what getpid returned or raised
StartCheck(r, pid) ==
    IF pid.kind = "ValueError" THEN Raise(r, "ValueError", "")
    ELSE IF pid # None THEN Raise(r, "ConsoleError", "already exists")
    ELSE [r EXCEPT !.pc = "fork1"]

start(p) ==
    /\ proc[p].pc = "start"
    /\ Set(p, StartCheck(Did(proc[p], "start"), getpid(pidfile)))
    /\ UNCHANGED <<pidfile, writable, nextpid, invocations, run, registry>>

(***************************************************************************)
(* DaemonProgram.daemonize, one action per system call.                    *)
(***************************************************************************)
\* mutant: the parent does not leave after the fork
AfterFork_noexit(r, pid, nextpc) ==
    [r EXCEPT !.pc = nextpc, !.gen = IF pid > 0 THEN @ ELSE @ + 1]

\* the code after os.fork() in the process where it returned `pid`:
\* the parent (pid > 0) leaves through sys.exit(0), the child falls through
AfterFork(r, pid, nextpc) ==
    IF pid > 0 THEN SysExit0(r)
    ELSE [r EXCEPT !.pc = nextpc, !.gen = @ + 1, !.pending = FALSE]

\* str(e) of the OSError that os.fork() can raise
ForkErrors == {"Resource temporarily unavailable", "Cannot allocate memory"}

\* mutant: the message of the failed fork leaves out the system's text
ForkMessage_bare(what, e) ==
    IF what = "fork1" THEN "Fork #1 failed" ELSE "Fork #2 failed"

\* "Fork #1 failed: %s" % str(e), "Fork #2 failed: %s" % str(e)
ForkMessage(what, e) ==
    (IF what = "fork1" THEN "Fork #1 failed: " ELSE "Fork #2 failed: ") \o e

\* os.fork() at `pc`: a failure (OSError) becomes ConsoleError; a success
\* creates a copy of the caller under a new process id
Fork(p, pc, what, nextpc) ==
    /\ proc[p].pc = pc
    /\ \/ /\ \E e \in ForkErrors :
                Set(p, Raise(proc[p], "ConsoleError", ForkMessage(what, e)))
          /\ UNCHANGED nextpid
       \/ /\ nextpid \in Pids
          /\ LET r == Did(proc[p], what) IN
             proc' = [proc EXCEPT ![p] = AfterFork(r, nextpid, nextpc),
                                  ![nextpid] = AfterFork(r, 0, nextpc)]
          /\ nextpid' = nextpid + 1
    /\ UNCHANGED <<pidfile, writable, invocations, run, registry>>

\* mutant: the child of the first fork goes straight to the second fork
fork1_nodetach(p) == Fork(p, "fork1", "fork1", "fork2")

fork1(p) == Fork(p, "fork1", "fork1", "detach")

\* os.chdir("/"); os.setsid(); os.umask(0)
detach(p) ==
    /\ proc[p].pc = "detach"
    /\ Set(p, [Did(proc[p], "setsid") EXCEPT !.pc = "fork2"])
    /\ UNCHANGED <<pidfile, writable, nextpid, invocations, run, registry>>

fork2(p) == Fork(p, "fork2", "fork2", "testpid")

(***************************************************************************)
(* DaemonProgram.testpid: write the sentinel, then remove the file.  Only  *)
(* IOError is caught; os.remove raises OSError when the file is gone.      *)
(***************************************************************************)
\* mutant: the IOError of the check is swallowed
testpid_swallow(p) ==
    /\ proc[p].pc = "testpid"
    /\ IF writable
       THEN /\ pidfile' = Sentinel
            /\ Set(p, [proc[p] EXCEPT !.pc = "testpid_remove"])
       ELSE /\ Set(p, [Did(proc[p], "testpid") EXCEPT !.pc = "redirect"])
            /\ UNCHANGED pidfile
    /\ UNCHANGED <<writable, nextpid, invocations, run, registry>>

testpid(p) ==
    /\ proc[p].pc = "testpid"
    /\ IF writable
       THEN /\ pidfile' = Sentinel
            /\ Set(p, [proc[p] EXCEPT !.pc = "testpid_remove"])
       ELSE /\ Set(p, Raise(proc[p], "ConsoleError", "Cannot write to pidfile"))
            /\ UNCHANGED pidfile
    /\ UNCHANGED <<writable, nextpid, invocations, run, registry>>

testpid_remove(p) ==
    /\ proc[p].pc = "testpid_remove"
    /\ IF pidfile # Absent
       THEN /\ pidfile' = Absent
            /\ Set(p, [Did(proc[p], "testpid") EXCEPT !.pc = "redirect"])
       ELSE /\ Set(p, Raise(proc[p], "OSError", ""))
            /\ UNCHANGED pidfile
    /\ UNCHANGED <<writable, nextpid, invocations, run, registry>>

\* flush, open the three configured paths, dup2 onto the standard streams
redirect(p) ==
    /\ proc[p].pc = "redirect"
    /\ Set(p, [Did(proc[p], "redirect") EXCEPT !.redirected = TRUE,
                                               !.pc = "register"])
    /\ UNCHANGED <<pidfile, writable, nextpid, invocations, run, registry>>

\* atexit.register(self.cleanup)
register(p) ==
    /\ proc[p].pc = "register"
    /\ Set(p, [Did(proc[p], "atexit") EXCEPT !.atexit = TRUE,
                                             !.pc = "writepid"])
    /\ UNCHANGED <<pidfile, writable, nextpid, invocations, run, registry>>

\* pid = str(os.getpid()); pidfile.write("%s\n" % pid); then start calls
\* handle_daemon
writepid(p) ==
    /\ proc[p].pc = "writepid"
    /\ IF writable
       THEN /\ pidfile' = FormatPid(p)
            /\ Set(p, [Did(Did(proc[p], "writepid"), "handle_daemon")
                         EXCEPT !.pc = "handle_daemon"])
       ELSE /\ Set(p, Raise(proc[p], "IOError", ""))
            /\ UNCHANGED pidfile
    /\ UNCHANGED <<writable, nextpid, invocations, run, registry>>

(***************************************************************************)
(* handle_daemon is supplied by the subclass: it runs until it returns or  *)
(* raises.  The base class raises NotImplementedError.                     *)
(***************************************************************************)
handle_daemon(p) ==
    /\ proc[p].pc = "handle_daemon"
    /\ \/ Set(p, Return(proc[p]))
       \/ \E exc \in {"ConsoleError", "NotImplementedError"} :
             Set(p, Raise(proc[p], exc, ""))
    /\ UNCHANGED <<pidfile, writable, nextpid, invocations, run, registry>>

(***************************************************************************)
(* DaemonProgram.cleanup, run by atexit when the interpreter exits.        *)
(***************************************************************************)
\* mutant: the exit handler leaves the pidfile in place
cleanup_keep(content) == content

cleanup(content) == Absent

exit(p) ==
    /\ proc[p].pc = "exiting"
    /\ pidfile' = cleanup(pidfile)
    /\ Set(p, [proc[p] EXCEPT !.pc = "exited"])
    /\ UNCHANGED <<writable, nextpid, invocations, run, registry>>

(***************************************************************************)
(* DaemonProgram.stop                                                      *)
(***************************************************************************)
\* the error os.kill(pid, SIGTERM) raises, "" when the signal is delivered
KillOutcomes(pid) == IF Alive(pid) THEN {"", "Operation not permitted"}
                     ELSE {"No such process"}

\* mutant: every error of os.kill is taken for "No such process"
IsNoSuchProcess_any(error) == error # ""

\* str(error).find("No such process") > 0
IsNoSuchProcess(error) == error = "No such process"

\* stop returned: restart goes on to start, a plain stop ends handle
StopReturn(r) ==
    IF r.op = "restart" THEN [Did(r, "stop_ok") EXCEPT !.pc = "start"]
    ELSE Return(Did(r, "stop_ok"))

\* mutant: a missing pidfile is not an error for stop
StopCheck_quiet(r, pid) ==
    IF pid.kind = "ValueError" THEN Raise(r, "ValueError", "")
    ELSE IF pid = None THEN Return(r)
    ELSE [r EXCEPT !.target = pid.val, !.pc = "kill"]

\* `pid` is what getpid returned or raised
StopCheck(r, pid) ==
    IF pid.kind = "ValueError" THEN Raise(r, "ValueError", "")
    ELSE IF pid = None THEN Raise(r, "ConsoleError", "does not exist")
    ELSE [r EXCEPT !.target = pid.val, !.pc = "kill"]

stop(p) ==
    /\ proc[p].pc = "stop"
    /\ Set(p, StopCheck(Did(proc[p], "stop"), getpid(pidfile)))
    /\ UNCHANGED <<pidfile, writable, nextpid, invocations, run, registry>>

\* mutant: no loop, the signal is sent once and stop goes on to the removal
kill_once(p) ==
    /\ proc[p].pc = "kill"
    /\ \E error \in KillOutcomes(proc[p].target) :
         LET r == proc[p] IN
         IF error = ""
         THEN proc' = [proc EXCEPT ![r.target].pending = TRUE,
                                   ![p].done = @ \cup {"kill"},
                                   ![p].pc = "stop_exists"]
         ELSE IF IsNoSuchProcess(error)
              THEN Set(p, [Did(r, error) EXCEPT !.pc = "stop_exists"])
              ELSE Set(p, Raise(Did(r, error), "ConsoleError", error))
    /\ UNCHANGED <<pidfile, writable, nextpid, invocations, run, registry>>

\* mutant: the loop gives up after a second delivered signal
kill_bounded(p) ==
    /\ proc[p].pc = "kill"
    /\ \E error \in KillOutcomes(proc[p].target) :
         LET r == proc[p] IN
         IF error = ""
         THEN proc' = [proc EXCEPT ![r.target].pending = TRUE,
                                   ![p].done = @ \cup {"kill"},
                                   ![p].pc = IF "kill" \in r.done
                                             THEN "stop_exists" ELSE "kill"]
         ELSE IF IsNoSuchProcess(error)
              THEN Set(p, [Did(r, error) EXCEPT !.pc = "stop_exists"])
              ELSE Set(p, Raise(Did(r, error), "ConsoleError", error))
    /\ UNCHANGED <<pidfile, writable, nextpid, invocations, run, registry>>

\* one turn of `while True: os.kill(pid, SIGTERM); time.sleep(0.1)`
kill(p) ==
    /\ proc[p].pc = "kill"
    /\ \E error \in KillOutcomes(proc[p].target) :
         LET r == proc[p] IN
         IF error = ""
         THEN proc' = [proc EXCEPT ![r.target].pending = TRUE,
                                   ![p].done = @ \cup {"kill"}]
         ELSE IF IsNoSuchProcess(error)
              THEN Set(p, [Did(r, error) EXCEPT !.pc = "stop_exists"])
              ELSE Set(p, Raise(Did(r, error), "ConsoleError", error))
    /\ UNCHANGED <<pidfile, writable, nextpid, invocations, run, registry>>

\* mutant: stop takes the pidfile for gone without looking
stop_exists_absent(p) ==
    /\ proc[p].pc = "stop_exists"
    /\ Set(p, StopReturn(proc[p]))
    /\ UNCHANGED <<pidfile, writable, nextpid, invocations, run, registry>>

\* if os.path.exists(self.pidfile):
stop_exists(p) ==
    /\ proc[p].pc = "stop_exists"
    /\ IF pidfile # Absent
       THEN Set(p, [proc[p] EXCEPT !.pc = "stop_remove"])
       ELSE Set(p, StopReturn(proc[p]))
    /\ UNCHANGED <<pidfile, writable, nextpid, invocations, run, registry>>

\* mutant: stop forgets to remove the pidfile
stop_remove_keep(p) ==
    /\ proc[p].pc = "stop_remove"
    /\ Set(p, StopReturn(Did(proc[p], "remove")))
    /\ UNCHANGED <<pidfile, writable, nextpid, invocations, run, registry>>

\* os.remove(self.pidfile), inside the handler of the OSError of os.kill
stop_remove(p) ==
    /\ proc[p].pc = "stop_remove"
    /\ IF pidfile # Absent
       THEN /\ pidfile' = Absent
            /\ Set(p, StopReturn(Did(proc[p], "remove")))
       ELSE /\ Set(p, Raise(proc[p], "OSError", ""))
            /\ UNCHANGED pidfile
    /\ UNCHANGED <<writable, nextpid, invocations, run, registry>>

(***************************************************************************)
(* The environment of the daemon: delivery of a pending SIGTERM, and the   *)
(* daemon dying without running its exit handlers.                         *)
(***************************************************************************)
\* the default action ends the process at once, exit handlers do not run; a
\* handler installed by handle_daemon may leave through sys.exit or go on
\* mutant: a daemon that ignores the signal drops its pidfile
sigterm_unlink(p) ==
    /\ Alive(p)
    /\ proc[p].pending
    /\ \/ /\ Set(p, [proc[p] EXCEPT !.pc = "killed", !.status = 128 + 15,
                                    !.pending = FALSE])
          /\ UNCHANGED pidfile
       \/ /\ proc[p].pc = "handle_daemon"
          /\ \/ /\ Set(p, [Return(proc[p]) EXCEPT !.pending = FALSE])
                /\ UNCHANGED pidfile
             \/ /\ Set(p, [proc[p] EXCEPT !.pending = FALSE])
                /\ pidfile' = Absent
    /\ UNCHANGED <<writable, nextpid, invocations, run, registry>>

sigterm(p) ==
    /\ Alive(p)
    /\ proc[p].pending
    /\ \/ Set(p, [proc[p] EXCEPT !.pc = "killed", !.status = 128 + 15,
                                 !.pending = FALSE])
       \/ /\ proc[p].pc = "handle_daemon"
          /\ \/ Set(p, [Return(proc[p]) EXCEPT !.pending = FALSE])
             \/ Set(p, [proc[p] EXCEPT !.pending = FALSE])
    /\ UNCHANGED <<pidfile, writable, nextpid, invocations, run, registry>>

\* the daemon is ended from outside (SIGKILL, power loss)
crash(p) ==
    /\ proc[p].pc = "handle_daemon"
    /\ Set(p, [proc[p] EXCEPT !.pc = "killed", !.status = 128 + 9,
                              !.pending = FALSE])
    /\ UNCHANGED <<pidfile, writable, nextpid, invocations, run, registry>>

\* another process removes the file at the pidfile path: the os.remove of a
\* stop running at the same time, or an operator's rm
unlink ==
    /\ pidfile # Absent
    /\ pidfile' = Absent
    /\ UNCHANGED <<writable, proc, nextpid, invocations, run, registry>>

(***************************************************************************)
(* The execution engines: BaseCommand.execute (base.py), its copy          *)
(* ConsoleProgram.execute (standalone.py) and DaemonProgram.execute, and   *)
(* the handle methods of the command variants.  Text is a sequence of      *)
(* atoms; what handle does is a record: it returns None, returns text, or  *)
(* raises.                                                                 *)
(***************************************************************************)
ReturnsNone == [kind |-> "none", text |-> <<>>, exc |-> "none", msg |-> ""]
ReturnsText(t) == [kind |-> "text", text |-> t, exc |-> "none", msg |-> ""]
Raises(e, m) == [kind |-> "raise", text |-> <<>>, exc |-> e, msg |-> m]

\* Python's truth value of what a handle or a hook returned
Truthy(o) == o.kind = "text" /\ o.text # <<>>

RECURSIVE Join(_, _)
\* sep.join(list)
Join(list, sep) ==
    IF list = <<>> THEN <<>>
    ELSE IF Len(list) = 1 THEN list[1]
    ELSE list[1] \o sep \o Join(Tail(list), sep)

Commands == {"BaseCommand", "LabelCommand", "NoArgsCommand",
             "FilePathCommand", "ConsoleProgram", "DaemonProgram"}

\* the class whose execute a command runs
EngineOf(cmd) == IF cmd = "ConsoleProgram" THEN "standalone"
                 ELSE IF cmd = "DaemonProgram" THEN "daemon"
                 ELSE "base"

\* mutant: every engine names ConsoleError in its except clause
Caught_console(engine) == "ConsoleError"

\* the exception class named in the engine's except clause
Caught(engine) == IF engine = "base" THEN "CommandError" ELSE "ConsoleError"

\* the labels and paths of the modelled command lines
Labels == {"a", "b"}

\* what a per-label, per-path or no-args hook does, by its kind
HookKinds == {"text", "empty", "none", "raise"}

Hook(kind, x) ==
    IF kind = "text" THEN ReturnsText(<<"out:", x>>)
    ELSE IF kind = "empty" THEN ReturnsText(<<>>)
    ELSE IF kind = "none" THEN ReturnsNone
    ELSE Raises("NotImplementedError", "")

\* what an overridden handle does, by its kind
HandleKinds == {"text", "line", "empty", "none", "CommandError",
                "ConsoleError", "NotImplementedError"}

UserHandle(kind) ==
    IF kind = "text" THEN ReturnsText(<<"hello">>)
    ELSE IF kind = "line" THEN ReturnsText(<<"hello", "LF">>)
    ELSE IF kind = "empty" THEN ReturnsText(<<>>)
    ELSE IF kind = "none" THEN ReturnsNone
    ELSE Raises(kind, "boom")

(***************************************************************************)
(* LabelCommand.handle(self, *lables, **opts): the body reads `labels`,    *)
(* which is neither a local nor a global name.                             *)
(***************************************************************************)
LabelHandleLocals == {"self", "lables", "opts"}

RECURSIVE LabelLoop(_, _, _, _)
\* for label in labels: ...; return '\n'.join(output)
LabelLoop(labels, hook, output, calls) ==
    IF labels = <<>>
    THEN [outcome |-> ReturnsText(Join(output, <<"LF">>)), calls |-> calls]
    ELSE LET o == Hook(hook[Head(labels)], Head(labels))
             c == Append(calls, Head(labels))
         IN IF o.kind = "raise" THEN [outcome |-> o, calls |-> c]
            ELSE LabelLoop(Tail(labels), hook,
                           IF Truthy(o) THEN Append(output, o.text) ELSE output,
                           c)

\* mutant: the parameter is spelled `labels`
LabelHandle_spelled(labels, hook) ==
    IF labels = <<>>
    THEN [outcome |-> Raises("CommandError", "Enter at least one label."),
          calls |-> <<>>]
    ELSE LabelLoop(labels, hook, <<>>, <<>>)

LabelHandle(lables, hook) ==
    IF "labels" \notin LabelHandleLocals
    THEN [outcome |-> Raises("NameError", ""), calls |-> <<>>]
    ELSE IF lables = <<>>
    THEN [outcome |-> Raises("CommandError", "Enter at least one label."),
          calls |-> <<>>]
    ELSE LabelLoop(lables, hook, <<>>, <<>>)

(***************************************************************************)
(* NoArgsCommand.handle                                                    *)
(***************************************************************************)
\* mutant: the arguments are not looked at
NoArgsHandle_unchecked(args, kind) ==
    [outcome |-> Hook(kind, "noargs"), calls |-> <<"noargs">>]

NoArgsHandle(args, kind) ==
    IF args # <<>>
    THEN [outcome |-> Raises("CommandError",
                             "Command doesn't accept any arguments."),
          calls |-> <<>>]
    ELSE [outcome |-> Hook(kind, "noargs"), calls |-> <<"noargs">>]

(***************************************************************************)
(* FilePathCommand.check_path and FilePathCommand.handle                   *)
(***************************************************************************)
check_path(path, readable) == path \in readable

\* "%s is not a valid %s." % (path, self.label)
InvalidLine(path) == <<path, " is not a valid ", "path", ".">>

RECURSIVE PathLoop(_, _, _, _, _)
PathLoop(paths, readable, hook, output, calls) ==
    IF paths = <<>>
    THEN [outcome |-> ReturnsText(Join(Append(output, <<>>), <<"LF">>)),
          calls |-> calls]
    ELSE IF ~check_path(Head(paths), readable)
    THEN PathLoop(Tail(paths), readable, hook,
                  Append(output, InvalidLine(Head(paths))), calls)
    ELSE LET o == Hook(hook[Head(paths)], Head(paths))
             c == Append(calls, Head(paths))
         IN IF o.kind = "raise" THEN [outcome |-> o, calls |-> c]
            ELSE PathLoop(Tail(paths), readable, hook,
                          IF Truthy(o) THEN Append(output, o.text) ELSE output,
                          c)

\* mutant: the first unreadable path ends the report
FilePathHandle_abort(paths, readable, hook) ==
    IF paths = <<>>
    THEN [outcome |-> Raises("CommandError", "Provide at least one path."),
          calls |-> <<>>]
    ELSE IF \E i \in 1..Len(paths) : ~check_path(paths[i], readable)
    THEN LET i == CHOOSE j \in 1..Len(paths) :
                     /\ ~check_path(paths[j], readable)
                     /\ \A k \in 1..(j - 1) : check_path(paths[k], readable)
         IN PathLoop(SubSeq(paths, 1, i), readable, hook, <<>>, <<>>)
    ELSE PathLoop(paths, readable, hook, <<>>, <<>>)

FilePathHandle(paths, readable, hook) ==
    IF paths = <<>>
    THEN [outcome |-> Raises("CommandError", "Provide at least one path."),
          calls |-> <<>>]
    ELSE PathLoop(paths, readable, hook, <<>>, <<>>)

(***************************************************************************)
(* handle, by command                                                      *)
(***************************************************************************)
Handle(r) ==
    IF r.cmd = "LabelCommand" THEN LabelHandle(r.args, r.hook)
    ELSE IF r.cmd = "NoArgsCommand" THEN NoArgsHandle(r.args, r.behave)
    ELSE IF r.cmd = "FilePathCommand"
         THEN FilePathHandle(r.args, r.readable, r.hook)
    ELSE [outcome |-> UserHandle(r.behave), calls |-> <<>>]

(***************************************************************************)
(* execute                                                                 *)
(***************************************************************************)
\* self.style.ERROR(text): the text between the colour code and the reset
ERROR(text) == <<"ESC[31;1m">> \o text \o <<"ESC[0m">>

\* self.style.ERROR('Error: %s\n' % e)
ErrorLine(msg) == ERROR(<<"Error: ", msg, "LF">>)

\* traceback.print_exc()
Trace(exc, msg) == <<"Traceback (most recent call last):", "LF",
                     "  File ...", "LF", exc, ": ", msg, "LF">>

(***************************************************************************)
(* The options record: load parses the command line against the command's  *)
(* option list and hands execute the parsed values by name.                *)
(***************************************************************************)
\* the dest names of the command's option list
OptionNames(cmd) ==
    IF cmd = "DaemonProgram" THEN {"traceback"}
    ELSE {"verbosity", "pythonpath", "traceback"}

\* choices=['0', '1', '2', '3'], default='1'
Verbosities == {"0", "1", "2", "3"}

\* --pythonpath is absent (None) or names a directory
PythonPaths == {"None", "/lib"}

\* what a caller can put under 'stdin', 'stdout' and 'stderr' in the
\* options of execute: nothing, a path, or an open stream
StreamOptions == {"absent", "/tmp/option", "<stream>"}

\* opts.__dict__ after parse_args, with the stream entries a caller added
Options(cmd, verbosity, pythonpath, tb, streamopts) ==
    LET parsed == [verbosity |-> verbosity, pythonpath |-> pythonpath,
                   traceback |-> IF tb THEN "True" ELSE "None"]
        keys == OptionNames(cmd)
                    \cup {s \in Streams : streamopts[s] # "absent"}
    IN [k \in keys |-> IF k \in Streams THEN streamopts[k] ELSE parsed[k]]

\* if hasattr(options, 'pythonpath'): sys.path.insert(0, options.pythonpath)
\* where parse_args gives every option of the list an attribute, None when
\* the command line does not set it
handle_default_options(options, path) ==
    IF "pythonpath" \in DOMAIN options
    THEN <<options["pythonpath"]>> \o path
    ELSE path

(***************************************************************************)
(* self.stdin, self.stdout, self.stderr                                    *)
(***************************************************************************)
\* what the constructor of the daemon can be given for a stream
GivenPaths == {"absent", "/var/log/daemon"}

\* kwargs.pop('stdout', '/dev/null') and its like in DaemonProgram.__init__
Constructed(given) ==
    [s \in Streams |-> IF given[s] = "absent" THEN "/dev/null" ELSE given[s]]

\* mutant: the daemon's execute takes the streams as its super class does
Targets_super(engine, given, opts) ==
    [s \in Streams |-> IF s \in DOMAIN opts THEN opts[s] ELSE "sys." \o s]

\* the three attributes after the assignments that open execute: the
\* generic engines fall back on the process's own streams, the daemon on
\* what its constructor stored
Targets(engine, given, opts) ==
    [s \in Streams |->
        IF s \in DOMAIN opts THEN opts[s]
        ELSE IF engine = "daemon" THEN Constructed(given)[s]
        ELSE "sys." \o s]

\* whether a value of self.stdout has a write method
StdoutKind(v) ==
    IF v \in {"<stream>", "sys.stdout"} THEN "stream" ELSE "path"

\* what the engine writes when handle returned truthy output
Written(engine, text) ==
    IF engine = "daemon" THEN <<text, <<"LF">>>> ELSE <<text>>

\* what the engine puts on the error stream for the exception it catches
Reported(engine, tb, exc, msg) ==
    IF engine = "daemon"
    THEN (IF tb THEN <<Trace(exc, msg)>> ELSE <<>>) \o <<ErrorLine(msg)>>
    ELSE IF tb THEN <<Trace(exc, msg)>> ELSE <<ErrorLine(msg)>>

\* mutant: every exception is caught
ExecuteResult_catchall(engine, o, tb, stdout) ==
    IF o.kind = "raise"
    THEN [out |-> <<>>, errs |-> Reported(engine, tb, o.exc, o.msg),
          result |-> "exit", exc |-> "none", status |-> 1]
    ELSE [out |-> IF Truthy(o) THEN Written(engine, o.text) ELSE <<>>,
          errs |-> <<>>, result |-> "returned", exc |-> "none", status |-> -1]

\* the whole of execute, given what handle did
ExecuteResult(engine, o, tb, stdout) ==
    IF o.kind = "raise"
    THEN IF o.exc = Caught(engine)
         THEN [out |-> <<>>, errs |-> Reported(engine, tb, o.exc, o.msg),
               result |-> "exit", exc |-> "none", status |-> 1]
         ELSE [out |-> <<>>, errs |-> <<>>, result |-> "propagated",
               exc |-> o.exc, status |-> -1]
    ELSE IF Truthy(o)
         THEN IF stdout = "stream"
              THEN [out |-> Written(engine, o.text), errs |-> <<>>,
                    result |-> "returned", exc |-> "none", status |-> -1]
              ELSE \* 'str' object has no attribute 'write'
                   [out |-> <<>>, errs |-> <<>>, result |-> "propagated",
                    exc |-> "AttributeError", status |-> -1]
    ELSE [out |-> <<>>, errs |-> <<>>, result |-> "returned",
          exc |-> "none", status |-> -1]

\* the inputs of a call, by command; inputs a command ignores keep their
\* idle values
HookMaps == [Labels -> HookKinds]

ArgLists == {<<>>} \cup {<<x>> : x \in Labels}
            \cup {<<x, y>> : x \in Labels, y \in Labels}

NoStreamOptions == [s \in Streams |-> "absent"]

\* load hands the parsed arguments and options to execute
call(cmd, args, tb, behave, hook, readable, verbosity, pythonpath, given, streamopts) ==
    /\ run.phase = "idle"
    /\ cmd = "DaemonProgram"
          => (verbosity = "1" /\ pythonpath = "None")
    /\ cmd # "DaemonProgram"
          => (given = NoStreamOptions /\ streamopts = NoStreamOptions)
    /\ cmd \in {"BaseCommand", "ConsoleProgram", "DaemonProgram"}
          => (args = <<>> /\ behave \in HandleKinds /\ hook = <<>>
              /\ readable = {})
    /\ cmd = "NoArgsCommand"
          => (behave \in HookKinds /\ hook = <<>> /\ readable = {})
    /\ cmd = "LabelCommand"
          => (behave = "none" /\ hook \in HookMaps /\ readable = {})
    /\ cmd = "FilePathCommand" => (behave = "none" /\ hook \in HookMaps)
    /\ run' = [Idle EXCEPT !.phase = "called", !.cmd = cmd, !.args = args,
                           !.tb = tb, !.behave = behave, !.hook = hook,
                           !.readable = readable, !.given = given,
                           !.opts = Options(cmd, verbosity, pythonpath, tb,
                                            streamopts),
                           !.syspath = handle_default_options(
                               Options(cmd, verbosity, pythonpath, tb,
                                       NoStreamOptions), SysPath)]
    /\ UNCHANGED <<pidfile, writable, proc, nextpid, invocations, registry>>

execute ==
    /\ run.phase = "called"
    /\ LET t == Targets(EngineOf(run.cmd), run.given, run.opts)
           h == Handle(run)
           e == ExecuteResult(EngineOf(run.cmd), h.outcome, run.tb,
                              StdoutKind(t["stdout"]))
       IN run' = [run EXCEPT !.phase = "done", !.calls = h.calls,
                             !.targets = t,
                             !.stdout = StdoutKind(t["stdout"]),
                             !.ret = h.outcome,
                             !.out = e.out, !.errs = e.errs,
                             !.result = e.result, !.exc = e.exc,
                             !.status = e.status]
    /\ UNCHANGED <<pidfile, writable, proc, nextpid, invocations, registry>>

(***************************************************************************)
(* The specification.                                                      *)
(***************************************************************************)
Next ==
    \/ \E args \in ArgChoices : load(args)
    \/ \E p \in Pids : handle(p)
    \/ \E p \in Pids : start(p)
    \/ \E p \in Pids : fork1(p)
    \/ \E p \in Pids : detach(p)
    \/ \E p \in Pids : fork2(p)
    \/ \E p \in Pids : testpid(p)
    \/ \E p \in Pids : testpid_remove(p)
    \/ \E p \in Pids : redirect(p)
    \/ \E p \in Pids : register(p)
    \/ \E p \in Pids : writepid(p)
    \/ \E p \in Pids : handle_daemon(p)
    \/ \E p \in Pids : exit(p)
    \/ \E p \in Pids : stop(p)
    \/ \E p \in Pids : kill(p)
    \/ \E p \in Pids : stop_exists(p)
    \/ \E p \in Pids : stop_remove(p)
    \/ \E p \in Pids : sigterm(p)
    \/ \E p \in Pids : crash(p)

Spec == Init /\ [][Next]_vars

\* the program next to a process that removes the pidfile on its own; a
\* stop that is in or past its polling loop is scheduled again and again
RaceNext == Next \/ unlink

StopFairness ==
    \A p \in Pids : /\ WF_vars(kill(p))
                    /\ WF_vars(stop_exists(p))
                    /\ WF_vars(stop_remove(p))

RaceSpec == Init /\ [][RaceNext]_vars /\ StopFairness

\* the process that `prog start` leaves behind once handle_daemon is under
\* way: all of daemonize is done, the two ancestors have exited
Daemon ==
    [Blank EXCEPT !.pc = "handle_daemon", !.args = <<"start">>,
                  !.op = "start", !.gen = 2, !.inv = FirstPid - 2,
                  !.atexit = TRUE, !.redirected = TRUE,
                  !.done = {"start", "fork1", "setsid", "fork2", "testpid",
                            "redirect", "atexit", "writepid",
                            "handle_daemon"}]

\* the manager is used on a path where an earlier start has put a daemon
RecoveryInit ==
    /\ pidfile = FormatPid(FirstPid)
    /\ writable = TRUE
    /\ proc = [p \in Pids |-> IF p = FirstPid THEN Daemon ELSE Blank]
    /\ nextpid = FirstPid + 1
    /\ invocations = 0
    /\ run = Idle
    /\ registry = Unloaded(PackageOnly)

RecoverySpec == RecoveryInit /\ [][Next]_vars

\* one call of execute on one command, the daemon machinery at rest
EngineInit ==
    /\ pidfile = Absent
    /\ writable = TRUE
    /\ proc = [p \in Pids |-> Blank]
    /\ nextpid = FirstPid
    /\ invocations = 0
    /\ run = Idle
    /\ registry = Unloaded(PackageOnly)

EngineNext ==
    \/ /\ run.phase = "idle"
       /\ \E cmd \in {"BaseCommand", "ConsoleProgram"}, tb \in BOOLEAN,
             behave \in HandleKinds, v \in Verbosities, pp \in PythonPaths :
                call(cmd, <<>>, tb, behave, <<>>, {}, v, pp,
                     NoStreamOptions, NoStreamOptions)
    \/ /\ run.phase = "idle"
       /\ \E args \in ArgLists, tb \in BOOLEAN, behave \in HookKinds,
             v \in Verbosities, pp \in PythonPaths :
                call("NoArgsCommand", args, tb, behave, <<>>, {}, v, pp,
                     NoStreamOptions, NoStreamOptions)
    \/ /\ run.phase = "idle"
       /\ \E args \in ArgLists, tb \in BOOLEAN, hook \in HookMaps,
             v \in Verbosities, pp \in PythonPaths :
                call("LabelCommand", args, tb, "none", hook, {}, v, pp,
                     NoStreamOptions, NoStreamOptions)
    \/ /\ run.phase = "idle"
       /\ \E args \in ArgLists, tb \in BOOLEAN, hook \in HookMaps,
             readable \in SUBSET Labels, v \in Verbosities,
             pp \in PythonPaths :
                call("FilePathCommand", args, tb, "none", hook, readable, v, pp,
                     NoStreamOptions, NoStreamOptions)
    \/ /\ run.phase = "idle"
       /\ \E tb \in BOOLEAN, behave \in HandleKinds,
             given \in [Streams -> GivenPaths],
             streamopts \in [Streams -> StreamOptions] :
                call("DaemonProgram", <<>>, tb, behave, <<>>, {}, "1", "None",
                     given, streamopts)
    \/ execute

EngineSpec == EngineInit /\ [][EngineNext]_vars

\* calls of get_commands in one interpreter, over the directories that
\* may be there
RegistryInit ==
    /\ pidfile = Absent
    /\ writable = TRUE
    /\ proc = [p \in Pids |-> Blank]
    /\ nextpid = FirstPid
    /\ invocations = 0
    /\ run = Idle
    /\ \E dirs \in [ManagementDirs -> Listings] : registry = Unloaded(dirs)

RegistryNext == \E path \in PathArgs : get_commands(path)

RegistrySpec == RegistryInit /\ [][RegistryNext]_vars

(***************************************************************************)
(* Vocabulary of the properties.                                           *)
(***************************************************************************)
\* a daemon started by an earlier invocation holds the pidfile
HeldBy(q) == "writepid" \in proc[q].done /\ pidfile = FormatPid(q)

\* the processes of the invocation that `p` belongs to
Family(p) == {q \in Pids : proc[q].pc # "unused" /\ proc[q].inv = proc[p].inv}

\* `p` takes the step in which its stop returns successfully
StopReturns(p) ==
    /\ proc[p].pc \in {"stop", "kill", "stop_exists", "stop_remove"}
    /\ "stop_ok" \notin proc[p].done
    /\ "stop_ok" \in proc'[p].done

\* the steps of daemonize that follow the two forks
LaterSteps == {"testpid", "redirect", "atexit", "writepid", "handle_daemon"}

(***************************************************************************)
(* C1.  A start issued while the pidfile written by an earlier start is    *)
(* still in place fails with ConsoleError ("already exists") and status 1, *)
(* and the failing step changes nothing else: the pidfile keeps its        *)
(* content, no process is forked, no stream is redirected, no cleanup is   *)
(* registered and handle_daemon is not invoked.                            *)
(***************************************************************************)
C1_SecondStartStep(p) ==
    (/\ proc[p].pc = "start"
     /\ proc'[p] # proc[p]
     /\ \E q \in Pids \ {p} : HeldBy(q))
    => /\ proc'[p].err = "ConsoleError"
       /\ proc'[p].msg = "already exists"
       /\ proc'[p].status = 1
       /\ proc'[p].pc = "exited"
       /\ pidfile' = pidfile
       /\ nextpid' = nextpid
       /\ \A q \in Pids \ {p} : proc'[q] = proc[q]
       /\ ~proc'[p].redirected
       /\ ~proc'[p].atexit
       /\ proc'[p].done \cap ({"fork1", "fork2"} \cup LaterSteps) = {}

C1_SecondStartFails == [][\A p \in Pids : C1_SecondStartStep(p)]_vars

C1_Witness ==
    \E p, q \in Pids :
       /\ p # q
       /\ HeldBy(q)
       /\ proc[q].op = "start"
       /\ proc[p].op = "start"
       /\ proc[p].inv # proc[q].inv
       /\ proc[p].msg = "already exists"

(***************************************************************************)
(* C2.  A stop that finds no pidfile fails with ConsoleError ("does not    *)
(* exist") and status 1; the failing step sends no signal to any process   *)
(* and leaves the path without a pidfile.                                  *)
(***************************************************************************)
C2_StopStep(p) ==
    (/\ proc[p].pc = "stop"
     /\ proc'[p] # proc[p]
     /\ pidfile = Absent)
    => /\ proc'[p].err = "ConsoleError"
       /\ proc'[p].msg = "does not exist"
       /\ proc'[p].status = 1
       /\ proc'[p].pc = "exited"
       /\ "kill" \notin proc'[p].done
       /\ \A q \in Pids \ {p} : proc'[q] = proc[q]
       /\ pidfile' = Absent

C2_StopWithoutPidfile == [][\A p \in Pids : C2_StopStep(p)]_vars

C2_Witness ==
    \E p \in Pids :
       /\ proc[p].op = "stop"
       /\ proc[p].msg = "does not exist"
       /\ pidfile = Absent

(***************************************************************************)
(* C3.  At the step where stop returns successfully the pidfile does not   *)
(* exist, and a start that finds no pidfile passes the check and goes on   *)
(* to daemonize (first fork).                                              *)
(***************************************************************************)
C3_Step(p) ==
    /\ StopReturns(p) => pidfile' = Absent
    /\ (proc[p].pc = "start" /\ proc'[p] # proc[p] /\ pidfile = Absent)
       => (proc'[p].pc = "fork1" /\ proc'[p].err = "none")

C3_StartStopRoundTrip == [][\A p \in Pids : C3_Step(p)]_vars

\* a restart stopped the daemon of an earlier start, and the start that
\* followed on the same path has a daemon of its own running
C3_Witness ==
    \E p, q, d \in Pids :
       /\ proc[q].op = "start" /\ "handle_daemon" \in proc[q].done
       /\ proc[p].op = "restart" /\ proc[p].inv # proc[q].inv
       /\ proc[p].target = q
       /\ {"kill", "stop_ok"} \subseteq proc[p].done
       /\ d \in Family(p) /\ proc[d].pc = "handle_daemon"
       /\ pidfile = FormatPid(d)

(***************************************************************************)
(* C4.  restart runs stop and then start, in that order, and start runs    *)
(* only when stop returned: a restart whose stop failed ends with stop's   *)
(* error and status 1 having forked no process, written no pidfile and     *)
(* never entered start.                                                    *)
(***************************************************************************)
StopErrors == {"ConsoleError", "ValueError", "OSError"}

C4_Restart ==
    \A p \in Pids :
       (proc[p].op = "restart" /\ proc[p].gen = 0) =>
          /\ (proc[p].pc = "stop" \/ "stop" \in proc[p].done)
          /\ "start" \in proc[p].done => "stop_ok" \in proc[p].done
          /\ "stop_ok" \in proc[p].done =>
                (proc[p].pc = "start" \/ "start" \in proc[p].done)
          /\ (proc[p].pc = "exited" /\ "stop_ok" \notin proc[p].done) =>
                /\ proc[p].err \in StopErrors
                /\ proc[p].status = 1
                /\ Family(p) = {p}
                /\ proc[p].done \cap ({"start", "fork1", "fork2"}
                                      \cup LaterSteps) = {}

\* a restart whose stop could not signal the running daemon
C4_Witness ==
    \E p \in Pids :
       /\ proc[p].op = "restart" /\ proc[p].pc = "exited"
       /\ proc[p].msg = "Operation not permitted"
       /\ Alive(proc[p].target)

(***************************************************************************)
(* C5.  handle dispatches only on exactly one positional argument that is  *)
(* start, stop or restart; every other command line ends in ConsoleError   *)
(* with none of start, stop, restart run.                                  *)
(***************************************************************************)
Dispatchable(args) == Len(args) = 1 /\ args[1] \in {"start", "stop", "restart"}

Dispatched(p) == proc[p].pc \notin {"unused", "handle"} /\ proc[p].gen = 0

C5_DispatchOrConsoleError ==
    \A p \in Pids :
       Dispatched(p) =>
          IF Dispatchable(proc[p].args)
          THEN proc[p].op = proc[p].args[1]
          ELSE /\ proc[p].err = "ConsoleError"
               /\ proc[p].op = "none"
               /\ proc[p].done = {}
               /\ Family(p) = {p}

(***************************************************************************)
(* C6.  stop signals only the process id it read from the pidfile, and it  *)
(* returns successfully only after a delivery failed with "No such         *)
(* process"; it does not remove the pidfile before that failure, and at    *)
(* the step of its successful return the pidfile does not exist.           *)
(***************************************************************************)
C6_State(p) ==
    /\ "stop_ok" \in proc[p].done => "No such process" \in proc[p].done
    /\ "remove" \in proc[p].done => "No such process" \in proc[p].done
    /\ proc[p].pc \in {"stop_exists", "stop_remove"}
          => "No such process" \in proc[p].done

C6_Step(p) ==
    \* the id that stop goes on to signal is the one the pidfile records
    /\ (proc[p].pc = "stop" /\ proc'[p].pc = "kill")
          => pidfile = FormatPid(proc'[p].target)
    \* a signal becomes pending only at the target of a stop in its loop
    /\ (~proc[p].pending /\ proc'[p].pending)
          => \E k \in Pids : proc[k].pc = "kill" /\ proc[k].target = p
    \* in the loop, stop leaves the pidfile alone and stays in the loop
    \* unless a delivery fails
    /\ (proc[p].pc = "kill" /\ proc'[p] # proc[p])
          => /\ pidfile' = pidfile
             /\ \/ proc'[p].pc = "kill"
                \/ proc'[p].pc = "killed"
                \/ /\ proc'[p].pc = "stop_exists"
                   /\ ~Alive(proc[p].target)
                \/ /\ proc'[p].pc = "exited"
                   /\ proc'[p].err = "ConsoleError"
    \* the successful return
    /\ StopReturns(p)
          => /\ pidfile' = Absent
             /\ "No such process" \in proc[p].done

C6_StopLoop ==
    [][\A p \in Pids : C6_State(p) /\ C6_State(p)' /\ C6_Step(p)]_vars

\* a stop signalled a live daemon, saw it gone, removed the pidfile and
\* returned
C6_Witness ==
    \E p \in Pids :
       /\ proc[p].op = "stop"
       /\ {"kill", "No such process", "remove", "stop_ok"} \subseteq proc[p].done
       /\ proc[proc[p].target].pc = "killed"
       /\ pidfile = Absent

(***************************************************************************)
(* C7.  A delivery that fails with an error other than "No such process"   *)
(* makes stop signal ConsoleError carrying that error (status 1); the      *)
(* failing step leaves the pidfile exactly as it was, and that stop never  *)
(* removes it.                                                             *)
(***************************************************************************)
C7_Step(p) ==
    ("Operation not permitted" \notin proc[p].done
     /\ "Operation not permitted" \in proc'[p].done)
    => /\ pidfile' = pidfile
       /\ proc'[p].err = "ConsoleError"
       /\ proc'[p].msg = "Operation not permitted"
       /\ proc'[p].status = 1
       /\ proc'[p].pc = "exited"
       /\ proc'[p].done \cap {"remove", "stop_ok", "No such process"} = {}

C7_OtherKillError == [][\A p \in Pids : C7_Step(p)]_vars

\* the stop failed, the daemon and its pidfile are as they were
C7_Witness ==
    \E p, q \in Pids :
       /\ proc[p].op = "stop"
       /\ "Operation not permitted" \in proc[p].done
       /\ proc[p].target = q
       /\ proc[q].pc = "handle_daemon"
       /\ pidfile = FormatPid(q)

(***************************************************************************)
(* C8.  When the pidfile path is not writable, a start that gets as far as *)
(* the writability check signals ConsoleError there (status 1), with no    *)
(* standard stream redirected and no cleanup registered; no pidfile ever   *)
(* exists at the path and no process gets past the check to the            *)
(* redirection, the registration, the pidfile write or handle_daemon.      *)
(***************************************************************************)
PastTestpid == {"testpid_remove", "redirect", "register", "writepid",
                "handle_daemon", "exiting"}

C8_Unwritable ==
    /\ ~writable =>
          /\ pidfile = Absent
          /\ \A p \in Pids :
                /\ proc[p].pc \notin PastTestpid
                /\ proc[p].done \cap LaterSteps = {}
    /\ \A p \in Pids :
          /\ proc[p].msg = "Cannot write to pidfile" =>
                /\ ~writable
                /\ proc[p].err = "ConsoleError"
                /\ proc[p].status = 1
                /\ proc[p].pc = "exited"
                /\ ~proc[p].redirected
                /\ ~proc[p].atexit
          /\ (~writable /\ proc[p].pc = "exited" /\ "fork2" \in proc[p].done
              /\ proc[p].gen = 2)
                => proc[p].msg = "Cannot write to pidfile"

C8_Witness ==
    \E p \in Pids :
       /\ proc[p].gen = 2
       /\ proc[p].msg = "Cannot write to pidfile"
       /\ {"fork1", "setsid", "fork2"} \subseteq proc[p].done

(***************************************************************************)
(* C9.  After a successful fork the forking process (the invoking process  *)
(* at the first fork, the intermediate child at the second) has ended with *)
(* exit status 0 and has performed none of the later steps; those steps    *)
(* are performed by the grandchild only, and at most one process of an     *)
(* invocation ever runs handle_daemon.                                     *)
(***************************************************************************)
C9_DoubleFork ==
    \A p \in Pids :
       /\ (proc[p].gen = 0 /\ "fork1" \in proc[p].done)
             => (proc[p].pc = "exited" /\ proc[p].status = 0)
       /\ (proc[p].gen = 1 /\ "fork2" \in proc[p].done)
             => (proc[p].pc = "exited" /\ proc[p].status = 0)
       /\ (proc[p].done \cap LaterSteps # {} \/ proc[p].pc \in PastTestpid
           \/ proc[p].redirected \/ proc[p].atexit)
             => (proc[p].gen = 2 /\ {"fork1", "setsid", "fork2"} \subseteq proc[p].done)
       /\ Cardinality({q \in Family(p) : "handle_daemon" \in proc[q].done}) <= 1

C9_Witness ==
    \E p, c, g \in Pids :
       /\ proc[p].gen = 0 /\ proc[c].gen = 1 /\ proc[g].gen = 2
       /\ {c, g} \subseteq Family(p)
       /\ proc[p].pc = "exited" /\ proc[p].status = 0
       /\ proc[c].pc = "exited" /\ proc[c].status = 0
       /\ proc[g].pc = "handle_daemon"

(***************************************************************************)
(* C10.  The pidfile write of a start is made by the grandchild and        *)
(* records the id of the writing process itself, as its decimal digits     *)
(* followed by one newline; getpid on that content returns the id of the   *)
(* process that goes on to run handle_daemon.                              *)
(***************************************************************************)
\* the text is the decimal numeral of n: digits only, no leading zero
IsDecimalOf(text, n) ==
    /\ IsNumeral(text)
    /\ (Len(text) > 1 => text[1] # "0")
    /\ DigitsValue(text) = n

C10_Step(p) ==
    (proc[p].pc = "writepid" /\ proc'[p].pc = "handle_daemon")
    => /\ proc[p].gen = 2
       /\ Len(pidfile') >= 2
       /\ pidfile'[Len(pidfile')] = "LF"
       /\ IsDecimalOf(SubSeq(pidfile', 1, Len(pidfile') - 1), p)
       /\ getpid(pidfile') = [kind |-> "int", val |-> p]

C10_PidfileRecordsDaemon == [][\A p \in Pids : C10_Step(p)]_vars

\* a daemon with a three-digit id runs handle_daemon under its own pidfile
C10_Witness ==
    \E p \in Pids :
       /\ proc[p].pc = "handle_daemon"
       /\ p >= 100
       /\ pidfile = str(p) \o <<"LF">>

(***************************************************************************)
(* C11.  The cleanup action is registered before the pidfile is written,   *)
(* and a daemon that leaves handle_daemon by a normal path (a return, an   *)
(* exception) runs its exit handlers, whose step leaves the path without   *)
(* a pidfile.                                                              *)
(***************************************************************************)
C11_State(p) ==
    (proc[p].pc = "writepid" \/ "writepid" \in proc[p].done)
       => (proc[p].atexit /\ "atexit" \in proc[p].done)

C11_Step(p) ==
    /\ (proc[p].pc = "handle_daemon"
        /\ proc'[p].pc \notin {"handle_daemon", "killed"})
          => (proc'[p].pc = "exiting" /\ proc'[p].atexit)
    /\ (proc[p].pc = "exiting" /\ proc'[p].pc = "exited")
          => pidfile' = Absent

C11_CleanupOnExit ==
    [][\A p \in Pids : C11_State(p) /\ C11_State(p)' /\ C11_Step(p)]_vars

\* a daemon whose handle_daemon raised has ended and its pidfile is gone
C11_Witness ==
    \E p \in Pids :
       /\ "writepid" \in proc[p].done
       /\ proc[p].err = "NotImplementedError"
       /\ proc[p].pc = "exited"
       /\ pidfile = Absent

(***************************************************************************)
(* C18.  A start that finds a pidfile whose content is no integer goes on  *)
(* to daemonize as if the file were absent, raising no error.              *)
(***************************************************************************)
Unparsable(content) ==
    /\ content # Absent
    /\ ~IsNumeral(strip(content))

C18_Step(p) ==
    (proc[p].pc = "start" /\ proc'[p] # proc[p] /\ Unparsable(pidfile))
    => (proc'[p].pc = "fork1" /\ proc'[p].err = "none")

C18_UnparsableAsAbsent == [][\A p \in Pids : C18_Step(p)]_vars

(***************************************************************************)
(* C19.  Whenever the pidfile exists its content is one decimal integer    *)
(* followed by a newline.  (As amended: or the text "test" and a newline,  *)
(* which the writability check of a start writes before removing it.)      *)
(***************************************************************************)
IsPidText(content) ==
    /\ Len(content) >= 2
    /\ content[Len(content)] = "LF"
    /\ IsNumeral(SubSeq(content, 1, Len(content) - 1))

Stale(q) == pidfile = FormatPid(q) /\ ~Alive(q)

C20_Step(p) ==
    /\ (proc[p].pc = "start" /\ proc'[p] # proc[p] /\ \E q \in Pids : Stale(q))
          => /\ proc'[p].err = "ConsoleError"
             /\ proc'[p].msg = "already exists"
             /\ proc'[p].pc = "exited"
             /\ nextpid' = nextpid
    /\ (proc[p].pc = "stop" /\ proc'[p] # proc[p] /\ \E q \in Pids : Stale(q))
          => /\ proc'[p].pc = "kill"
             /\ Stale(proc'[p].target)

C20_PidfileOnly == [][\A p \in Pids : C20_Step(p)]_vars

\* a start was refused although the recorded daemon had been killed
C20_Witness ==
    \E p, q \in Pids :
       /\ proc[q].pc = "killed"
       /\ pidfile = FormatPid(q)
       /\ proc[p].op = "start"
       /\ proc[p].msg = "already exists"
       /\ \A d \in Pids : proc[d].pc # "handle_daemon"

(***************************************************************************)
(* Properties of the execution engines, stated on a finished call.         *)
(***************************************************************************)
Finished == run.phase = "done"

\* everything written to a stream, as one text
Flat(writes) == Join(writes, <<>>)

\* the number of line ends in a text
LineEnds(text) == Cardinality({i \in DOMAIN text : text[i] = "LF"})

Contains(text, atom) == \E i \in DOMAIN text : text[i] = atom

\* the user error a command's engine declares
UserErrorOf(cmd) ==
    IF cmd \in {"ConsoleProgram", "DaemonProgram"} THEN "ConsoleError"
    ELSE "CommandError"

RaisedUserError == /\ Finished
                   /\ run.ret.kind = "raise"
                   /\ run.ret.exc = UserErrorOf(run.cmd)

RaisedOther == /\ Finished
               /\ run.ret.kind = "raise"
               /\ run.ret.exc # UserErrorOf(run.cmd)

\* C12: for every command type, when handle raises the user error the
\* process ends with exit status 1; with traceback false the error stream
\* holds exactly one line, containing the error's message; with traceback
\* true it holds the diagnostic trace instead of that one-line message.
C12_UserErrorReport ==
    RaisedUserError =>
        /\ run.result = "exit"
        /\ run.status = 1
        /\ ~run.tb => /\ LineEnds(Flat(run.errs)) = 1
                      /\ Contains(Flat(run.errs), run.ret.msg)
        /\ run.tb => /\ LineEnds(Flat(run.errs)) > 1
                     /\ Contains(Flat(run.errs),
                                 "Traceback (most recent call last):")
                     /\ ~Contains(Flat(run.errs), "Error: ")

\* C13: a failure raised by handle that is not the declared user error is
\* not caught by execute: it propagates unchanged whatever the traceback
\* option is, nothing is written to the error stream and the process is not
\* ended with status 1.
C13_OtherFailuresPropagate ==
    RaisedOther =>
        /\ run.result = "propagated"
        /\ run.exc = run.ret.exc
        /\ run.errs = <<>>
        /\ run.status # 1

C13_Witness ==
    /\ RaisedOther
    /\ run.cmd = "DaemonProgram"
    /\ run.ret.exc = "NotImplementedError"
    /\ run.tb
    /\ run.result = "propagated"

\* C14: when handle returns non-empty text, execute writes that text to the
\* output stream exactly once, followed by at most one separator and nothing
\* else; when handle returns empty text or nothing, execute writes nothing.
C14_OutputWrittenOnce ==
    (Finished /\ run.ret.kind \in {"text", "none"}) =>
        IF run.ret.kind = "text" /\ run.ret.text # <<>>
        THEN /\ run.result = "returned"
             /\ Flat(run.out) \in {run.ret.text, run.ret.text \o <<"LF">>}
        ELSE run.out = <<>> /\ run.result = "returned"

(***************************************************************************)
(* The reports of the command variants, written from their contracts.      *)
(***************************************************************************)
RECURSIVE Selected(_, _)
\* the elements of a list that lie in a set, in the list's order
Selected(list, set) ==
    IF list = <<>> THEN <<>>
    ELSE IF Head(list) \in set THEN <<Head(list)>> \o Selected(Tail(list), set)
    ELSE Selected(Tail(list), set)

RECURSIVE PathEntries(_)
\* one entry per path, in order: the diagnostic of an unreadable path, the
\* hook's text for a readable one, nothing for a hook that gave no text
PathEntries(paths) ==
    IF paths = <<>> THEN <<>>
    ELSE (IF Head(paths) \notin run.readable
          THEN <<<<Head(paths), " is not a valid ", "path", ".">>>>
          ELSE IF run.hook[Head(paths)] = "text"
          THEN <<<<"out:", Head(paths)>>>>
          ELSE <<>>)
         \o PathEntries(Tail(paths))

RECURSIVE LinesOf(_)
\* every entry on a line of its own
LinesOf(entries) ==
    IF entries = <<>> THEN <<>>
    ELSE Head(entries) \o <<"LF">> \o LinesOf(Tail(entries))

NoHookRaises ==
    \A i \in DOMAIN run.args :
        run.hook[run.args[i]] = "raise" =>
            (run.cmd = "FilePathCommand" /\ run.args[i] \notin run.readable)

\* C15: the file-path variant, for a non-empty list of paths, returns one
\* report in argument order: an unreadable path contributes its diagnostic
\* line and its hook is not called, a readable path has its hook called
\* exactly once and its non-empty output included, and an unreadable path
\* does not stop the processing of the paths after it.
C15_FilePathReport ==
    (Finished /\ run.cmd = "FilePathCommand" /\ run.args # <<>>
              /\ NoHookRaises) =>
        /\ run.calls = Selected(run.args, run.readable)
        /\ run.ret.kind = "text"
        /\ run.ret.text = LinesOf(PathEntries(run.args))

C15_Witness ==
    /\ Finished
    /\ run.cmd = "FilePathCommand"
    /\ run.args = <<"a", "b">>
    /\ run.readable = {"b"}
    /\ run.hook["b"] = "text"
    /\ run.calls = <<"b">>
    /\ run.ret.text = <<"a", " is not a valid ", "path", ".", "LF",
                        "out:", "b", "LF">>
    /\ Flat(run.out) = run.ret.text

RECURSIVE LabelEntries(_)
LabelEntries(labels) ==
    IF labels = <<>> THEN <<>>
    ELSE (IF run.hook[Head(labels)] = "text"
          THEN <<<<"out:", Head(labels)>>>> ELSE <<>>)
         \o LabelEntries(Tail(labels))

\* C16: the label variant, given one or more arguments, calls the per-label
\* hook exactly once per argument in argument order and returns the hooks'
\* non-empty outputs joined with newlines; given no argument it raises
\* CommandError and calls no hook.
C16_LabelReport ==
    (Finished /\ run.cmd = "LabelCommand" /\ NoHookRaises) =>
        IF run.args = <<>>
        THEN /\ run.ret.kind = "raise"
             /\ run.ret.exc = "CommandError"
             /\ run.calls = <<>>
        ELSE /\ run.calls = run.args
             /\ run.ret.kind = "text"
             /\ run.ret.text = Join(LabelEntries(run.args), <<"LF">>)

\* C17: the no-args variant raises CommandError without calling the no-args
\* hook whenever a positional argument is supplied; with none it calls the
\* hook exactly once, with the options only, and returns the hook's result.
C17_NoArgs ==
    (Finished /\ run.cmd = "NoArgsCommand") =>
        IF run.args # <<>>
        THEN /\ run.ret.kind = "raise"
             /\ run.ret.exc = "CommandError"
             /\ run.calls = <<>>
             /\ run.result = "exit"
        ELSE /\ run.calls = <<"noargs">>
             /\ run.ret = Hook(run.behave, "noargs")

C17_Witness ==
    /\ Finished
    /\ run.cmd = "NoArgsCommand"
    /\ run.args = <<"a">>
    /\ run.behave = "text"
    /\ run.ret.exc = "CommandError"
    /\ run.calls = <<>>
    /\ run.status = 1

(***************************************************************************)
(* C21.  While the target lives and the signal is delivered, stop stays in *)
(* its loop: the turn sends the termination signal and nothing stronger,   *)
(* leaves the target otherwise as it was, does not touch the pidfile and   *)
(* does not return, however many turns went before.                        *)
(***************************************************************************)
C21_Step(p) ==
    (/\ proc[p].pc = "kill"
     /\ proc'[p] # proc[p]
     /\ Alive(proc[p].target)
     /\ proc'[p].err = "none")
    => /\ proc'[p].pc = "kill"
       /\ proc'[p].target = proc[p].target
       /\ proc'[p].status = -1
       /\ proc'[p].done = proc[p].done \cup {"kill"}
       /\ proc'[proc[p].target] = [proc[proc[p].target] EXCEPT !.pending = TRUE]
       /\ \A q \in Pids \ {p, proc[p].target} : proc'[q] = proc[q]
       /\ pidfile' = pidfile

C21_StopLoopsWhileTargetLives == [][\A p \in Pids : C21_Step(p)]_vars

\* the daemon took a signal and went on; the stop that sent it is still in
\* its loop and the pidfile is still there
C21_Witness ==
    \E p \in Pids :
       /\ proc[p].pc = "kill"
       /\ "kill" \in proc[p].done
       /\ proc[proc[p].target].pc = "handle_daemon"
       /\ ~proc[proc[p].target].pending
       /\ pidfile = FormatPid(proc[p].target)

(***************************************************************************)
(* C24.  The steps of a start happen in one order: first fork, session     *)
(* detach, second fork, writability check, redirection, registration of    *)
(* the cleanup, write of the pidfile, handle_daemon.  The detach is done   *)
(* by the child of the first fork, which is the parent of the second, and  *)
(* a process in handle_daemon has written the pidfile.                     *)
(***************************************************************************)
StartOrder == <<"fork1", "setsid", "fork2", "testpid", "redirect", "atexit",
                "writepid", "handle_daemon">>

StartSteps == {StartOrder[i] : i \in DOMAIN StartOrder}

\* the first n steps of a start
FirstSteps(n) == {StartOrder[i] : i \in 1..n}

\* how many steps of a start lie behind a process at `pc`
StepsBehind(pc) ==
    IF pc = "fork1" THEN 0
    ELSE IF pc = "detach" THEN 1
    ELSE IF pc = "fork2" THEN 2
    ELSE IF pc \in {"testpid", "testpid_remove"} THEN 3
    ELSE IF pc = "redirect" THEN 4
    ELSE IF pc = "register" THEN 5
    ELSE IF pc = "writepid" THEN 6
    ELSE 8

InStart == {"fork1", "detach", "fork2", "testpid", "testpid_remove",
            "redirect", "register", "writepid", "handle_daemon"}

C24_StartOrder ==
    \A p \in Pids :
       /\ \E n \in 0..Len(StartOrder) :
             proc[p].done \cap StartSteps = FirstSteps(n)
       /\ proc[p].pc \in InStart =>
             proc[p].done \cap StartSteps = FirstSteps(StepsBehind(proc[p].pc))
       /\ proc[p].pc \in {"detach", "fork2"} => proc[p].gen = 1
       /\ (proc[p].pc \in InStart /\ StepsBehind(proc[p].pc) >= 3)
             => proc[p].gen = 2
       /\ proc[p].pc = "handle_daemon" =>
             (proc[p].redirected /\ proc[p].atexit)

C24_Witness ==
    \E p \in Pids :
       /\ proc[p].pc = "handle_daemon"
       /\ StartSteps \subseteq proc[p].done
       /\ proc[p].gen = 2
       /\ pidfile = FormatPid(p)

(***************************************************************************)
(* C26.  Nothing locks the pidfile between start's check and the write: a  *)
(* start that finds no pidfile goes on to the first fork even while        *)
(* another start has passed its check and not yet written, so two starts   *)
(* on one path can both reach handle_daemon with the pidfile recording at  *)
(* most one of the two daemons.                                            *)
(***************************************************************************)
BetweenCheckAndWrite(q) ==
    proc[q].pc \in InStart \ {"handle_daemon"}

C26_Step(p) ==
    (/\ proc[p].pc = "start"
     /\ proc'[p] # proc[p]
     /\ pidfile = Absent
     /\ \E q \in Pids : proc[q].inv # proc[p].inv /\ BetweenCheckAndWrite(q))
    => /\ proc'[p].pc = "fork1"
       /\ proc'[p].err = "none"

C26_NoMutualExclusion == [][\A p \in Pids : C26_Step(p)]_vars

\* two daemons of two starts run at once and the pidfile names the second
C26_Witness ==
    \E d, e \in Pids :
       /\ proc[d].inv # proc[e].inv
       /\ proc[d].op = "start" /\ proc[e].op = "start"
       /\ proc[d].pc = "handle_daemon" /\ proc[e].pc = "handle_daemon"
       /\ pidfile = FormatPid(e)
       /\ pidfile # FormatPid(d)

(***************************************************************************)
(* C28.  A fork that fails in start is reported as ConsoleError carrying   *)
(* the system's message, with status 1; after a failed first fork the      *)
(* invocation has one process and none detached; after either failure the  *)
(* failing process has written no pidfile, redirected no stream and not    *)
(* invoked handle_daemon, and neither has any process of its invocation.   *)
(***************************************************************************)
\* the first fork of `p` failed: p passed start's check and ended in
\* ConsoleError without having forked
FailedFirstFork(p) ==
    /\ proc[p].gen = 0
    /\ proc[p].pc = "exited"
    /\ "start" \in proc[p].done
    /\ "fork1" \notin proc[p].done
    /\ proc[p].err = "ConsoleError"
    /\ proc[p].msg # "already exists"

\* the second fork of `p` failed: p is a child of the first fork that ended
\* without having forked
FailedSecondFork(p) ==
    /\ proc[p].gen = 1
    /\ proc[p].pc = "exited"
    /\ "fork2" \notin proc[p].done

NothingCommitted(q) ==
    /\ ~proc[q].redirected
    /\ ~proc[q].atexit
    /\ proc[q].done \cap LaterSteps = {}
    /\ pidfile # FormatPid(q)

C28_ForkFailure ==
    \A p \in Pids :
       /\ FailedFirstFork(p) =>
             /\ proc[p].msg \in {"Fork #1 failed: " \o e : e \in ForkErrors}
             /\ proc[p].status = 1
             /\ Family(p) = {p}
             /\ "setsid" \notin proc[p].done
             /\ NothingCommitted(p)
       /\ FailedSecondFork(p) =>
             /\ proc[p].err = "ConsoleError"
             /\ proc[p].msg \in {"Fork #2 failed: " \o e : e \in ForkErrors}
             /\ proc[p].status = 1
             /\ \A q \in Family(p) : proc[q].gen < 2 /\ NothingCommitted(q)

\* the second fork failed in a detached child whose parent has left
C28_Witness ==
    \E p, q \in Pids :
       /\ FailedSecondFork(p)
       /\ proc[p].msg = "Fork #2 failed: Cannot allocate memory"
       /\ "setsid" \in proc[p].done
       /\ Family(p) = {p, q}
       /\ proc[q].pc = "exited" /\ proc[q].status = 0

(***************************************************************************)
(* C30.  A process that ends on a ConsoleError signalled by the dispatch,  *)
(* start, stop or restart has exit status 1; a process that ends without   *)
(* any error, the parents that leave during daemonize included, has exit   *)
(* status 0; no process ends on ConsoleError with status 0.                *)
(***************************************************************************)
Ended(p) == proc[p].pc \in {"exiting", "exited"}

C30_ExitStatus ==
    \A p \in Pids :
       Ended(p) =>
          /\ proc[p].err = "ConsoleError" => proc[p].status = 1
          /\ proc[p].err = "none" => proc[p].status = 0
          /\ proc[p].status \in {0, 1}

\* the writability check failed in the daemon-to-be, after both parents left
C30_Witness ==
    \E p, q, d \in Pids :
       /\ Family(d) = {p, q, d}
       /\ proc[p].gen = 0 /\ proc[q].gen = 1 /\ proc[d].gen = 2
       /\ Ended(p) /\ proc[p].err = "none" /\ proc[p].status = 0
       /\ Ended(q) /\ proc[q].err = "none" /\ proc[q].status = 0
       /\ Ended(d) /\ proc[d].err = "ConsoleError" /\ proc[d].status = 1
       /\ proc[d].msg = "Cannot write to pidfile"

(***************************************************************************)
(* C25.  Once the target of a stop is gone after the stop signalled it,    *)
(* the stop, scheduled fairly, eventually returns successfully.            *)
(***************************************************************************)
TargetGone(p) ==
    /\ proc[p].pc = "kill"
    /\ "kill" \in proc[p].done
    /\ ~Alive(proc[p].target)

C27_DoubleRemovalNoOp ==
    \A p \in Pids :
       ("No such process" \in proc[p].done /\ Ended(p))
          => "stop_ok" \in proc[p].done

C23_OptionsRecord ==
    run.phase \in {"called", "done"} =>
        /\ {"verbosity", "pythonpath", "traceback"} \subseteq DOMAIN run.opts
        /\ run.opts["verbosity"] \in {"0", "1", "2", "3"}

PythonPathSupplied ==
    "pythonpath" \in DOMAIN run.opts /\ run.opts["pythonpath"] # "None"

C31_SearchPath ==
    run.phase \in {"called", "done"} =>
        IF PythonPathSupplied
        THEN run.syspath = <<run.opts["pythonpath"]>> \o SysPath
        ELSE run.syspath = SysPath

(***************************************************************************)
(* C36.  Once the first fork of start has succeeded the invoking process   *)
(* has exited with status 0 and no error, whatever happens later; a failed *)
(* second fork or a failed writability check shows only in a descendant,   *)
(* which ends with status 1 while its invoker's status stays 0.            *)
(***************************************************************************)
Invoker(p) == proc[p].gen = 0 /\ "fork1" \in proc[p].done

FailedAfterFirstFork(q) ==
    /\ proc[q].err = "ConsoleError"
    /\ \/ proc[q].msg = "Cannot write to pidfile"
       \/ \E e \in ForkErrors : proc[q].msg = ForkMessage("fork2", e)

C36_InvokerExitsZero ==
    /\ \A p \in Pids :
          Invoker(p) => /\ proc[p].pc = "exited"
                        /\ proc[p].status = 0
                        /\ proc[p].err = "none"
    /\ \A q \in Pids :
          FailedAfterFirstFork(q) =>
              /\ proc[q].gen >= 1
              /\ proc[q].status = 1
              /\ \E p \in Family(q) : Invoker(p) /\ proc[p].status = 0

C36_Witness ==
    \E p, q \in Pids :
        /\ Invoker(p) /\ proc[p].status = 0
        /\ q \in Family(p)
        /\ proc[q].gen = 2
        /\ proc[q].msg = "Cannot write to pidfile"
        /\ proc[q].pc = "exited"
        /\ proc[q].status = 1

(***************************************************************************)
(* C35.  No step of a start's writability check (sentinel write, sentinel  *)
(* removal) and no exit cleanup changes a pidfile that records the id of a *)
(* different daemon that is still running.                                 *)
(***************************************************************************)
RunningDaemon(d) == proc[d].pc = "handle_daemon" /\ pidfile = FormatPid(d)

C35_Step ==
    \A q, d \in Pids :
        /\ q # d
        /\ RunningDaemon(d)
        /\ proc[q].pc \in {"testpid", "testpid_remove", "exiting"}
        /\ proc'[q] # proc[q]
        => pidfile' = pidfile

C35_OtherPidfileKept == [][C35_Step]_vars

(***************************************************************************)
(* C33.  While a daemon is in handle_daemon the pidfile exists and holds   *)
(* that process's id, as long as no other invocation acts on the path: the *)
(* daemon enters handle_daemon with its id written, every step in which no *)
(* process of another invocation moves keeps it there, and with a single   *)
(* invocation it holds in every state.                                     *)
(***************************************************************************)
OthersStill(d) == \A q \in Pids \ Family(d) : proc'[q] = proc[q]

C33_Step(d) ==
    /\ proc'[d].pc = "handle_daemon"
    /\ \/ proc[d].pc = "writepid"
       \/ RunningDaemon(d) /\ OthersStill(d)
    => pidfile' = FormatPid(d)

C33_Alone ==
    invocations = 1 =>
        \A d \in Pids : proc[d].pc = "handle_daemon" => pidfile = FormatPid(d)

C33_PidfileWhileRunning ==
    [][\A d \in Pids : C33_Step(d)]_vars /\ []C33_Alone

C33_Witness ==
    \E d \in Pids :
        /\ invocations = 1
        /\ RunningDaemon(d)
        /\ pidfile # Absent
        /\ \A q \in Family(d) \ {d} : proc[q].pc = "exited"

(***************************************************************************)
(* C34.  stop removes the pidfile only if it still records the process id  *)
(* that stop signaled: a pidfile that another start has written for a      *)
(* different daemon while stop was polling is left in place.               *)
(***************************************************************************)
C34_Step ==
    \A p \in Pids :
        /\ proc[p].pc = "stop_remove"
        /\ proc'[p] # proc[p]
        /\ "kill" \in proc[p].done
        /\ \E d \in Pids \ {proc[p].target} : RunningDaemon(d)
        => pidfile' = pidfile

C34_RemovesOnlyOwnTarget == [][C34_Step]_vars

(***************************************************************************)
(* C37.  stop on a stale pidfile (a valid integer whose process is no      *)
(* longer alive) recovers the state in which nothing runs: the first       *)
(* delivery fails with "No such process", stop removes the pidfile and     *)
(* returns without error, and a start that follows passes the absence      *)
(* check.                                                                  *)
(***************************************************************************)
\* stop of p has found its target gone at the first delivery
FoundStale(p) ==
    /\ proc[p].op = "stop"
    /\ "No such process" \in proc[p].done
    /\ "kill" \notin proc[p].done

\* the first os.kill on a target that is not alive fails with "No such
\* process" and is no error of stop
C37_Delivery(p) ==
    /\ proc[p].pc = "kill" /\ proc[p].op = "stop"
    /\ "kill" \notin proc[p].done
    /\ ~Alive(proc[p].target)
    /\ proc'[p] # proc[p]
    => /\ proc'[p].pc = "stop_exists"
       /\ proc'[p].err = "none"
       /\ FoundStale(p)'

\* stop removes the pidfile it finds and returns
C37_Removal(p) ==
    /\ FoundStale(p)
    /\ proc[p].pc = "stop_remove"
    /\ proc'[p] # proc[p]
    /\ pidfile # Absent
    => /\ pidfile' = Absent
       /\ proc'[p].pc = "exited"
       /\ proc'[p].status = 0
       /\ proc'[p].err = "none"

\* with the pidfile gone a start passes the absence check
C37_StartAfter(q) ==
    /\ proc[q].pc = "start" /\ proc[q].op = "start"
    /\ proc'[q] # proc[q]
    /\ pidfile = Absent
    /\ \E p \in Pids : FoundStale(p) /\ proc[p].pc = "exited"
    => proc'[q].pc = "fork1" /\ proc'[q].err = "none"

\* a stop that is the only invocation and found its target gone has ended
\* without error and left no pidfile
C37_Recovered ==
    invocations = 1 =>
        \A p \in Pids :
            FoundStale(p) /\ proc[p].pc = "exited"
            => /\ pidfile = Absent
               /\ proc[p].status = 0
               /\ proc[p].err = "none"
               /\ "stop_ok" \in proc[p].done

C37_Step ==
    \A p \in Pids : C37_Delivery(p) /\ C37_Removal(p) /\ C37_StartAfter(p)

C37_StaleRecovery == [][C37_Step]_vars /\ []C37_Recovered

\* a stop found the crashed daemon gone and removed its pidfile, and the
\* daemon of a later start is running
C37_Witness ==
    \E p, d \in Pids :
        /\ FoundStale(p) /\ proc[p].pc = "exited" /\ proc[p].status = 0
        /\ "remove" \in proc[p].done
        /\ proc[proc[p].target].pc = "killed"
        /\ proc[d].inv > p
        /\ RunningDaemon(d)

(***************************************************************************)
(* C32.  get_commands builds the command dictionary on its first call and  *)
(* caches it: every later call returns that same dictionary and lists no   *)
(* directory, whatever path it is given.                                   *)
(***************************************************************************)
C32_Step ==
    registry.calls >= 1 /\ registry'.calls = registry.calls + 1
    => /\ registry'.scans = registry.scans
       /\ registry'.raised = "none"
       /\ registry'.returned = registry.returned
       /\ registry'.returned = registry'.commands

C32_CachedAfterFirstCall == [][C32_Step]_vars

====
